---- MODULE Spec2Model ----
(***************************************************************************)
(* Model of the clinical dashboard front end.  The repository holds two    *)
(* editions of the same application:                                       *)
(*   "patient"  - src/src/Dashboard_App.tsx (file upload batch view)       *)
(*   "resident" - src/unnamed/part_000      (folder path batch view)       *)
(* The variable `variant` selects the edition; every action is translated  *)
(* from the handler of that edition.  One React event (a click, a key      *)
(* press, the continuation after an awaited call) together with the render *)
(* and the effects it triggers is one action.                              *)
(***************************************************************************)
EXTENDS Integers, Sequences, FiniteSets, TLC

(* ------------------------------ bounds -------------------------------- *)
MaxReq == 2        \* requests issued in one run of the application
MaxInst == 3       \* view instances mounted in one run (tab switches + 1)
MaxTimers == 2     \* setInterval handles created in one run
ScoreSteps == 20   \* risk scores are the multiples of 1/ScoreSteps in [0,1]
MaxCount == 4      \* largest count and total of a batch result
MaxRows == 3       \* longest flagged list of a rendered batch result

(* --------------------------- JS value encoding ------------------------ *)
Absent == "<undefined>"          \* a missing field / undefined
Null == "<null>"                 \* null held in a string-or-null state
NullV == [null |-> TRUE]         \* null held in an object-or-null state
NoData == [none |-> TRUE]        \* an object without the fields of interest

Num(n) == [n |-> n]              \* a JS number
NaNV == [nan |-> TRUE]           \* the JS number NaN
Str(s) == [s |-> s]              \* a JS string (sequence of characters)
IsNum(v) == DOMAIN v = {"n"}
IsStr(v) == DOMAIN v = {"s"}

\* JS truthiness of a string-or-undefined value
Truthy(s) == s # Absent /\ s # Null /\ s # ""

(* ------------------------------ variables ----------------------------- *)
VARIABLES
  variant,      \* which edition of the application runs
  tab,          \* App: tab
  inst,         \* identity of the mounted view instance (key={tab} remounts)
  form, result, loading, error,                       \* single view state
  file, folderPath, threshold, batchResult, batchLoading, batchError,
  residents, liveLoading, lastRefresh, autoRefresh, filter, intervalRef,
  timers,       \* live setInterval handles of the page
  nextTimer,    \* next handle setInterval returns
  requests,     \* api calls awaiting their response
  nextReq,      \* next request number
  now,          \* clock read by new Date()
  presetMark,   \* number of the first request issued after the last preset
  shownReq,     \* number of the request whose answer the residents state holds (0: none)
  cleared,      \* per timer handle, the clearInterval calls made with it on this page
  delivered,    \* the latest settled api call: the instance that made it
                \* and the kind of value it got back
  storage,      \* localStorage: the value under "api_base", or Absent
  API_BASE,     \* the module constant, evaluated when the page loads
  showSettings, \* App: showSettings
  url, connStatus, testing,      \* SettingsModal: url, status, testing
  testCall,     \* the modal's direct fetch awaiting its response
  modelStatus,  \* App: modelStatus
  statusCall,   \* the shell's api("/status") call awaiting its response
  saved,        \* the value this page load was started with by save(), as
                \* long as nothing else has written the key since
  rendered      \* the last rendering of a component given props directly

singleVars == <<form, result, loading, error>>
batchVars == <<file, folderPath, threshold, batchResult, batchLoading, batchError>>
liveVars == <<residents, liveLoading, lastRefresh, autoRefresh, filter, intervalRef>>
viewVars == <<tab, inst, singleVars, batchVars, liveVars, timers, nextTimer,
              requests, nextReq, now, presetMark, shownReq, cleared, delivered>>
shellVars == <<storage, API_BASE, showSettings, url, connStatus, testing, testCall,
               modelStatus, statusCall, saved>>
vars == <<variant, tab, inst, singleVars, batchVars, liveVars, timers, nextTimer,
          requests, nextReq, now, presetMark, shownReq, cleared, delivered, shellVars, rendered>>

(* --------------------------- design tokens ---------------------------- *)
RiskLevels == {"LOW", "MEDIUM", "HIGH", "URGENT"}

Style(fill, stroke, glow, label, icon) ==
  [kind |-> "style", fill |-> fill, stroke |-> stroke, glow |-> glow,
   label |-> label, icon |-> icon]
Color(c) == [kind |-> "color", value |-> c]

\* own keys of the token table T
TKeys(v) ==
  {"bg", "surface", "border", "borderHi", "text", "muted",
   "LOW", "MEDIUM", "HIGH", "URGENT", "NONE"}
  \cup (IF v = "resident" THEN {"surfaceHi", "accent"} ELSE {})

\* keys every JS object inherits from Object.prototype
ProtoKeys == {"toString", "constructor"}

T(v) ==
  IF v = "patient" THEN
    [k \in TKeys(v) |->
      CASE k = "bg" -> Color("#060a12")
        [] k = "surface" -> Color("#0c1220")
        [] k = "border" -> Color("#1a2540")
        [] k = "borderHi" -> Color("#243050")
        [] k = "text" -> Color("#c8d8f0")
        [] k = "muted" -> Color("#4a6080")
        [] k = "LOW" -> Style("#0d3320", "#1a6640", "#00ff88", "LOW RISK", "diamond")
        [] k = "MEDIUM" -> Style("#2d1f00", "#7a5200", "#ffaa00", "ELEVATED", "triangle")
        [] k = "HIGH" -> Style("#2d0a0a", "#8b1a1a", "#ff4444", "HIGH RISK", "square")
        [] k = "URGENT" -> Style("#2d0020", "#8b0060", "#ff00aa", "URGENT", "fisheye")
        [] k = "NONE" -> Style("#0c1220", "#1a2540", "#4a6080", "-", "circle")]
  ELSE
    [k \in TKeys(v) |->
      CASE k = "bg" -> Color("#04080f")
        [] k = "surface" -> Color("#080e1a")
        [] k = "surfaceHi" -> Color("#0c1425")
        [] k = "border" -> Color("#141e35")
        [] k = "borderHi" -> Color("#1e2e4a")
        [] k = "text" -> Color("#d0e4f8")
        [] k = "muted" -> Color("#3d5470")
        [] k = "accent" -> Color("#0066ff")
        [] k = "LOW" -> Style("#041a10", "#0a3d22", "#00e676", "LOW RISK", "diamond")
        [] k = "MEDIUM" -> Style("#1a1000", "#4d3300", "#ffb300", "MONITOR", "triangle")
        [] k = "HIGH" -> Style("#1a0606", "#5c1010", "#ff3d3d", "HIGH RISK", "square")
        [] k = "URGENT" -> Style("#1a0014", "#5c0050", "#e040fb", "URGENT", "fisheye")
        [] k = "NONE" -> Style("#080e1a", "#141e35", "#3d5470", "-", "circle")]

\* T[key] as JavaScript evaluates it: own property, inherited property, or undefined
Lookup(v, key) ==
  IF key \in TKeys(v) THEN T(v)[key]
  ELSE IF key \in ProtoKeys THEN [kind |-> "function", name |-> key]
  ELSE [kind |-> "undefined"]

\* risk(lvl) = T[lvl ?? ""] ?? T.NONE
risk(v, lvl) ==
  LET key == IF lvl = Absent \/ lvl = Null THEN "" ELSE lvl
      hit == Lookup(v, key)
  IN  IF hit.kind = "undefined" THEN T(v)["NONE"] ELSE hit


(* ------------------------- forms and presets -------------------------- *)
\* The form is modelled on two of its fields; the other fields are handled
\* by the same code.  patient: consciousness_level is a <select>;
\* resident: every field is a number input.  A string is a sequence of
\* tokens: single characters where the code looks inside the string, whole
\* words (option names) where it does not.
FormFields(v) ==
  IF v = "patient" THEN {"age", "consciousness_level"} ELSE {"age", "falls_count"}

NumericFields(v) ==
  IF v = "patient" THEN {"age"} ELSE FormFields(v)

DEFAULT(v) ==
  IF v = "patient"
  THEN [age |-> Num(72), consciousness_level |-> Str(<<"Alert">>)]
  ELSE [age |-> Num(78), falls_count |-> Num(0)]

PresetNames(v) ==
  IF v = "patient" THEN {"stable", "medium", "urgent"} ELSE {"stable", "monitor", "urgent"}

\* PRESETS[p] (patient) / PRESETS[p].form (resident): DEFAULT overridden
PRESETS(v) ==
  IF v = "patient" THEN
    [p \in PresetNames(v) |->
      CASE p = "stable" -> [DEFAULT(v) EXCEPT !.consciousness_level = Str(<<"Alert">>)]
        [] p = "medium" -> [DEFAULT(v) EXCEPT !.consciousness_level = Str(<<"Confused">>)]
        [] p = "urgent" -> [DEFAULT(v) EXCEPT !.age = Num(87),
                                              !.consciousness_level = Str(<<"Drowsy">>)]]
  ELSE
    [p \in PresetNames(v) |->
      CASE p = "stable" -> [DEFAULT(v) EXCEPT !.falls_count = Num(0)]
        [] p = "monitor" -> [DEFAULT(v) EXCEPT !.age = Num(82), !.falls_count = Num(1)]
        [] p = "urgent" -> [DEFAULT(v) EXCEPT !.age = Num(91), !.falls_count = Num(3)]]

(* ------------------------- number conversions ------------------------- *)
Digits == <<"0", "1", "2", "3", "4", "5", "6", "7", "8", "9">>
IsDigit(c) == \E i \in 1..10 : Digits[i] = c
DigitVal(c) == (CHOOSE i \in 1..10 : Digits[i] = c) - 1

\* length of the longest prefix of cs made of digits
RECURSIVE DigitPrefix(_)
DigitPrefix(cs) ==
  IF cs = <<>> \/ ~IsDigit(Head(cs)) THEN 0 ELSE 1 + DigitPrefix(Tail(cs))

RECURSIVE DigitsToNat(_, _)
DigitsToNat(cs, acc) ==
  IF cs = <<>> THEN acc ELSE DigitsToNat(Tail(cs), 10 * acc + DigitVal(Head(cs)))

\* the given decimal digits of a natural number (String(n) for n >= 0)
RECURSIVE NatToDigits(_)
NatToDigits(n) ==
  IF n < 10 THEN <<Digits[n + 1]>>
  ELSE NatToDigits(n \div 10) \o <<Digits[(n % 10) + 1]>>

\* parseFloat on a character sequence (unsigned integers are enough for the
\* inputs used here): the longest numeric prefix, NaN when there is none
parseFloat(cs) ==
  LET n == DigitPrefix(cs)
  IN  IF n = 0 THEN NaNV ELSE Num(DigitsToNat(SubSeq(cs, 1, n), 0))

\* Number(cs) / unary plus: the whole string must be numeric, "" is 0
ToNumber(cs) ==
  IF cs = <<>> THEN Num(0)
  ELSE IF DigitPrefix(cs) = Len(cs) THEN Num(DigitsToNat(cs, 0))
  ELSE NaNV

\* the conversion without its || 0 fallback
OrZeroMissing(x) == x

\* x || 0 on a number: NaN and 0 are falsy
OrZero(x) == IF x = NaNV \/ x = Num(0) THEN Num(0) ELSE x

\* parseFloat(String(v)) on a stored form value
parseFloatOfValue(x) == IF IsStr(x) THEN parseFloat(x.s) ELSE x


(* ---------------------------- configuration -------------------------- *)
DefaultUrl == "https://healthcare-ai-backend-qcr3.onrender.com"

\* const API_BASE = localStorage.getItem("api_base") || "https://...",
\* evaluated once, when the module is loaded
ApiBaseAtLoad(st) == IF Truthy(st) THEN st ELSE DefaultUrl

\* api() with the base resolved once, at load
BaseCached(st, ab) == ab

\* const base = localStorage.getItem("api_base") || API_BASE
Base(st, ab) == IF Truthy(st) THEN st ELSE ab

\* base + "/api" + path
Target(st, ab, path) == Base(st, ab) \o "/api" \o path

(* --------------------------- Remote Client ---------------------------- *)
\* What the network does with one request: fetch() rejects, or a response
\* arrives with a status and a body that parses as JSON or does not.
NetFail(msg) == [kind |-> "network", message |-> msg]
Http(status, parses, msg, body) ==
  [kind |-> "http", status |-> status, parses |-> parses, message |-> msg, body |-> body]

\* a JS object value: null, or an object with an optional __error field
JsNull == [isNull |-> TRUE, err |-> Absent, data |-> NoData]
Obj(err, data) == [isNull |-> FALSE, err |-> err, data |-> data]

\* r.ok
Ok(status) == status >= 200 /\ status <= 299

\* e.message || "Server unreachable"
MessageOr(m) == IF Truthy(m) THEN m ELSE "Server unreachable"

Resolved(v) == [settled |-> "resolved", value |-> v]
Rejected(m) == [settled |-> "rejected", value |-> Obj(m, NoData)]

\* api() without the "Server unreachable" fallback and with the status test
\* outside the try block
apiUnguarded(outcome) ==
  IF outcome.kind = "network"
    THEN Resolved(Obj(outcome.message, NoData))
  ELSE IF ~Ok(outcome.status)
    THEN Rejected("HTTP " \o ToString(outcome.status))
  ELSE IF ~outcome.parses
    THEN Resolved(Obj(MessageOr(outcome.message), NoData))
  ELSE Resolved(outcome.body)

\* api(path, opts): the settlement of the promise it returns
api(outcome) ==
  IF outcome.kind = "network"
    THEN Resolved(Obj(MessageOr(outcome.message), NoData))
  ELSE IF ~Ok(outcome.status)
    THEN Resolved(Obj(MessageOr("HTTP " \o ToString(outcome.status)), NoData))
  ELSE IF ~outcome.parses
    THEN Resolved(Obj(MessageOr(outcome.message), NoData))
  ELSE Resolved(outcome.body)

(* ----------------------- the remote service (environment) ------------- *)
\* alert_level values a single prediction may carry (the live lists below
\* carry the other cases)
LevelInputs == {"LOW", "bg"}

SummaryA == [id |-> "r1", risk_score |-> 90, alert_level |-> "URGENT"]
SummaryB == [id |-> "r2", risk_score |-> 20, alert_level |-> "LOW"]
SummaryC == [id |-> Absent, risk_score |-> 55, alert_level |-> "MEDIUM"]
SummaryD == [id |-> "r4", risk_score |-> 55, alert_level |-> "CRITICAL"]
SummaryE == [id |-> "r5", risk_score |-> 10, alert_level |-> Absent]
SummaryF == [id |-> "r6", risk_score |-> 70, alert_level |-> "toString"]
AlertLists == {<<>>, <<SummaryB, SummaryA>>, <<SummaryC, SummaryD, SummaryE, SummaryF>>}

\* parseable 2xx bodies the service may answer request r with
Bodies(r) ==
  CASE r.path = "/predict/single" ->
         {JsNull, Obj("model not loaded", NoData)}
         \cup {Obj(Absent, [alert_level |-> l]) : l \in LevelInputs}
    [] r.path \in {"/predict/batch", "/predict/folder"} ->
         {JsNull, Obj("folder not found", NoData), Obj(Absent, [total |-> 4])}
    [] r.path = "/status" ->
         {JsNull, Obj("model not trained", NoData), Obj(Absent, [status |-> "ready"])}
    [] r.path = "/alerts/current" ->
         {JsNull, Obj(Absent, [hasList |-> FALSE, list |-> <<>>])}
         \cup {Obj(Absent, [hasList |-> TRUE, list |-> l]) : l \in AlertLists}

Outcomes(r) ==
  {NetFail("Failed to fetch"), NetFail(""),
   Http(500, TRUE, "", JsNull), Http(200, FALSE, "Unexpected token", JsNull)}
  \cup {Http(200, TRUE, "", b) : b \in Bodies(r)}

(* ------------------------------- Init --------------------------------- *)
SingleInit(v) ==
  /\ form = DEFAULT(v) /\ result = NullV /\ loading = FALSE /\ error = Null
BatchInit ==
  /\ file = Null /\ folderPath = <<>> /\ threshold = 50
  /\ batchResult = NullV /\ batchLoading = FALSE /\ batchError = Null
LiveInit ==
  /\ residents = <<>> /\ liveLoading = FALSE /\ lastRefresh = NullV
  /\ autoRefresh = FALSE /\ filter = "ALL" /\ intervalRef = 0

\* a call slot: nothing pending, or the call made to address u for path
NoCall == [pending |-> FALSE]
Call(path, u) == [pending |-> TRUE, path |-> path, url |-> u]

NoSave == [saved |-> FALSE]
SavedAs(u) == [saved |-> TRUE, value |-> u]

\* App and SettingsModal right after the page loaded with st under api_base:
\* the mount effect has called api("/status")
ShellInit(st) ==
  /\ storage = st
  /\ API_BASE = ApiBaseAtLoad(st)
  /\ showSettings = FALSE
  /\ url = "" /\ connStatus = NullV /\ testing = FALSE /\ testCall = NoCall
  /\ modelStatus = NullV
  /\ statusCall = Call("/status", Target(st, ApiBaseAtLoad(st), "/status"))

\* a first visit: nothing is stored under api_base
Init ==
  /\ variant \in {"patient", "resident"}
  /\ tab = "single" /\ inst = 1
  /\ SingleInit(variant) /\ BatchInit /\ LiveInit
  /\ timers = {} /\ nextTimer = 1
  /\ requests = {} /\ nextReq = 1 /\ now = 0
  /\ presetMark = 1
  /\ shownReq = 0
  /\ cleared = [h \in 1..MaxTimers |-> 0]
  /\ delivered = [inst |-> 0, kind |-> "nothing"]
  /\ ShellInit(Absent)
  /\ saved = NoSave
  /\ rendered = [kind |-> "none"]


(* ------------------------- requests in flight ------------------------- *)
Request(path, src, payload) ==
  [id |-> nextReq, path |-> path, inst |-> inst, src |-> src, payload |-> payload,
   url |-> Target(storage, API_BASE, path)]

\* the api call of request r settles with outcome o
\* the kind of value a settlement hands to the code after the await
Kind(s) ==
  IF s.settled = "rejected" THEN "rejection"
  ELSE IF s.value.isNull THEN "null"
  ELSE IF Truthy(s.value.err) THEN "error"
  ELSE "value"

\* a view whose state setters reach a component that is not unmounted
MountedAlways(r) == TRUE

\* the view instance that issued r is the one on screen: key={tab} unmounts
\* the view on every tab change, and a state setter of an unmounted
\* component changes nothing
Mounted(r) == r.inst = inst

Settle(r, o) ==
  /\ o \in Outcomes(r)
  /\ requests' = requests \ {r}
  /\ delivered' = [inst |-> r.inst, kind |-> Kind(api(o))]

Issue(r) ==
  /\ nextReq <= MaxReq
  /\ requests' = requests \cup {r}
  /\ nextReq' = nextReq + 1

(* ---------------------------- single view ----------------------------- *)
\* <input type="number"> and <select> values the user can produce
NumberRaws == {<<"x">>, <<"8", "5">>}
SelectOptions == {<<"Alert">>, <<"Confused">>}

\* the value change() stores for an edit of a field
Coerce(v, type, value) ==
  IF v = "patient"
  THEN IF type = "number" THEN OrZero(parseFloat(value)) ELSE Str(value)
  ELSE IF type = "number" \/ ToNumber(value) # NaNV
       THEN OrZero(parseFloat(value)) ELSE Str(value)

change(name, type, value) ==
  /\ tab = "single"
  /\ form' = [form EXCEPT ![name] = Coerce(variant, type, value)]
  /\ UNCHANGED <<rendered, shellVars, variant, tab, inst, result, loading, error, batchVars, liveVars,
                 timers, nextTimer, requests, nextReq, now, presetMark, shownReq, cleared, delivered>>

Change ==
  \E name \in FormFields(variant) :
    IF name \in NumericFields(variant)
    THEN \E value \in NumberRaws : change(name, "number", value)
    ELSE \E value \in SelectOptions : change(name, "select-one", value)

\* what a preset click does to result and error
PresetClears(v, res, err) ==
  IF v = "patient" THEN <<NullV, err>> ELSE <<NullV, Null>>

\* a preset click that leaves everything alone when the form already is the
\* template
AfterPresetSkipsSame(v, p, f, res, err) ==
  IF f = PRESETS(v)[p] THEN <<f, res, err>>
  ELSE <<PRESETS(v)[p], PresetClears(v, res, err)[1], PresetClears(v, res, err)[2]>>

\* <<form, result, error>> after a click on preset p
AfterPreset(v, p, f, res, err) ==
  <<PRESETS(v)[p], PresetClears(v, res, err)[1], PresetClears(v, res, err)[2]>>

Preset(p) ==
  /\ tab = "single"
  /\ form' = AfterPreset(variant, p, form, result, error)[1]
  /\ result' = AfterPreset(variant, p, form, result, error)[2]
  /\ error' = AfterPreset(variant, p, form, result, error)[3]
  /\ presetMark' = nextReq
  /\ UNCHANGED <<shownReq, cleared>>
  /\ UNCHANGED <<rendered, shellVars, variant, tab, inst, loading, batchVars, liveVars,
                 timers, nextTimer, requests, nextReq, now, delivered>>

\* the body predict() sends.  The service's answer is not computed from it,
\* so a pending request does not keep it: the body of a submit is
\* Payload(variant, form) in the state the click happens in.
Payload(v, f) ==
  IF v = "patient"
  THEN [k \in DOMAIN f |-> IF k \in NumericFields(v) THEN parseFloatOfValue(f[k]) ELSE f[k]]
  ELSE f

\* the submit button: disabled={loading}
PredictEnabled == ~loading

predict ==
  /\ tab = "single"
  /\ PredictEnabled
  /\ Issue(Request("/predict/single", "click", NoData))
  /\ loading' = TRUE
  /\ error' = Null
  /\ UNCHANGED <<rendered, shellVars, variant, tab, inst, form, result, batchVars, liveVars,
                 timers, nextTimer, now, presetMark, shownReq, cleared, delivered>>

\* predict() with setLoading(false) on the success path only
AfterPredictKeepsLoading(s, res, ld, err) ==
  IF s.settled = "rejected" THEN <<res, ld, err>>
  ELSE IF s.value.isNull THEN <<res, ld, err>>
  ELSE IF Truthy(s.value.err) THEN <<res, ld, s.value.err>>
  ELSE <<s.value, FALSE, err>>

\* the state predict() leaves after its awaited call settled with s:
\* <<result, loading, error>>
AfterPredict(s, res, ld, err) ==
  IF s.settled = "rejected" THEN <<res, ld, err>>
  ELSE IF s.value.isNull THEN <<res, FALSE, err>>          \* TypeError on res.__error
  ELSE IF Truthy(s.value.err) THEN <<res, FALSE, s.value.err>>
  ELSE <<s.value, FALSE, err>>

PredictComplete(r, o) ==
  /\ r \in requests /\ r.path = "/predict/single"
  /\ Settle(r, o)
  /\ IF Mounted(r)
     THEN /\ result' = AfterPredict(api(o), result, loading, error)[1]
          /\ loading' = AfterPredict(api(o), result, loading, error)[2]
          /\ error' = AfterPredict(api(o), result, loading, error)[3]
     ELSE UNCHANGED <<result, loading, error>>
  /\ UNCHANGED <<rendered, shellVars, variant, tab, inst, form, batchVars, liveVars,
                 timers, nextTimer, nextReq, now, presetMark, shownReq, cleared>>


(* ----------------------------- batch view ----------------------------- *)
IsSpace(c) == c = " "

\* String.prototype.trim on a character sequence
RECURSIVE TrimLeft(_)
TrimLeft(cs) == IF cs # <<>> /\ IsSpace(Head(cs)) THEN TrimLeft(Tail(cs)) ELSE cs
RECURSIVE TrimRight(_)
TrimRight(cs) ==
  IF cs # <<>> /\ IsSpace(cs[Len(cs)]) THEN TrimRight(SubSeq(cs, 1, Len(cs) - 1)) ELSE cs
trim(cs) == TrimRight(TrimLeft(cs))

Files == {Null, "cohort.csv"}
FolderPaths == {<<>>, <<" ">>, <<"/", "d", " ">>}
Thresholds == {50, 80}        \* slider positions, in percent

\* a test of the raw path, spaces included
HasInputUntrimmed(v, f, path) == IF v = "patient" THEN f # Null ELSE path # <<>>

\* the input validity both the button and run() test
HasInput(v, f, path) == IF v = "patient" THEN f # Null ELSE trim(path) # <<>>

SetFile(f) ==
  /\ tab = "batch" /\ variant = "patient"
  /\ file' = f
  /\ UNCHANGED <<rendered, shellVars, variant, tab, inst, singleVars, folderPath, threshold, batchResult,
                 batchLoading, batchError, liveVars, timers, nextTimer, requests,
                 nextReq, now, presetMark, shownReq, cleared, delivered>>

SetFolderPath(path) ==
  /\ tab = "batch" /\ variant = "resident"
  /\ folderPath' = path
  /\ UNCHANGED <<rendered, shellVars, variant, tab, inst, singleVars, file, threshold, batchResult,
                 batchLoading, batchError, liveVars, timers, nextTimer, requests,
                 nextReq, now, presetMark, shownReq, cleared, delivered>>

SetThreshold(t) ==
  /\ tab = "batch"
  /\ threshold' = t
  /\ UNCHANGED <<rendered, shellVars, variant, tab, inst, singleVars, file, folderPath, batchResult,
                 batchLoading, batchError, liveVars, timers, nextTimer, requests,
                 nextReq, now, presetMark, shownReq, cleared, delivered>>

BatchPath(v) == IF v = "patient" THEN "/predict/batch" ELSE "/predict/folder"

\* the threshold goes out as String(threshold) in the form data of the patient
\* edition and as a number in the JSON body of the resident edition
BatchPayload(v) ==
  IF v = "patient" THEN [file |-> file, threshold |-> Str(NatToDigits(threshold))]
  ELSE [folder_path |-> trim(folderPath), threshold |-> Num(threshold)]

\* run(), called from control src
run(src) ==
  IF ~HasInput(variant, file, folderPath)
  THEN UNCHANGED vars                                       \* early return
  ELSE /\ Issue(Request(BatchPath(variant), src, BatchPayload(variant)))
       /\ batchLoading' = TRUE
       /\ batchError' = Null
       /\ batchResult' = NullV
       /\ UNCHANGED <<rendered, shellVars, variant, tab, inst, singleVars, file, folderPath, threshold,
                      liveVars, timers, nextTimer, now, presetMark, shownReq, cleared, delivered>>

\* the run button: disabled={!file || loading} / {!folderPath.trim() || loading}
RunEnabled == HasInput(variant, file, folderPath) /\ ~batchLoading

RunClick ==
  /\ tab = "batch"
  /\ RunEnabled
  /\ run("click")

\* onKeyDown of the folder path input: e.key === "Enter" && run()
\* (the handler does not look at loading)
RunEnter ==
  /\ tab = "batch" /\ variant = "resident"
  /\ run("enter")

\* run() storing whatever object the call resolved to, error marker or not
AfterRunStoresBody(s, res, ld, err) ==
  IF s.settled = "rejected" THEN <<res, ld, err>>
  ELSE IF s.value.isNull THEN <<res, FALSE, err>>
  ELSE <<s.value, FALSE, err>>

\* <<batchResult, batchLoading, batchError>> after the awaited call settled
AfterRun(s, res, ld, err) ==
  IF s.settled = "rejected" THEN <<res, ld, err>>
  ELSE IF s.value.isNull THEN <<res, FALSE, err>>
  ELSE IF Truthy(s.value.err) THEN <<res, FALSE, s.value.err>>
  ELSE <<s.value, FALSE, err>>

RunComplete(r, o) ==
  /\ r \in requests /\ r.path \in {"/predict/batch", "/predict/folder"}
  /\ Settle(r, o)
  /\ IF Mounted(r)
     THEN /\ batchResult' = AfterRun(api(o), batchResult, batchLoading, batchError)[1]
          /\ batchLoading' = AfterRun(api(o), batchResult, batchLoading, batchError)[2]
          /\ batchError' = AfterRun(api(o), batchResult, batchLoading, batchError)[3]
     ELSE UNCHANGED <<batchResult, batchLoading, batchError>>
  /\ UNCHANGED <<rendered, shellVars, variant, tab, inst, singleVars, file, folderPath, threshold, liveVars,
                 timers, nextTimer, nextReq, now, presetMark, shownReq, cleared>>

(* ------------------------------ live view ----------------------------- *)
FilterLevels == {"ALL", "LOW", "MEDIUM", "HIGH", "URGENT"}
\* the filter buttons exercised
FilterInputs == {"ALL", "LOW", "URGENT"}

\* the number of times x occurs in sequence q
Occurrences(q, x) == Cardinality({i \in 1..Len(q) : q[i] = x})

\* a clearInterval that cancels nothing
clearIntervalNoop(ts, h) == ts

\* clearInterval(h) on the page's timers; h = 0 is the null ref
clearInterval(ts, h) == {t \in ts : t.id # h}

\* the timers left after clearInterval was called with each handle of hs
RECURSIVE ClearAll(_, _)
ClearAll(ts, hs) ==
  IF hs = <<>> THEN ts ELSE ClearAll(clearInterval(ts, Head(hs)), Tail(hs))

\* the record of clearInterval calls after calls with the handles hs
Logged(log, hs) == [h \in DOMAIN log |-> log[h] + Occurrences(hs, h)]

\* the handles the effect's cleanup calls clearInterval with:
\* if (intervalRef.current) clearInterval(intervalRef.current)
\* (the ref is never set back to null, so it may hold a cancelled handle)
CleanupCalls(ref) == IF ref # 0 THEN <<ref>> ELSE <<>>

\* the handles the else branch of the effect calls clearInterval with
ElseCalls(ref) == IF ref # 0 THEN <<ref>> ELSE <<>>

\* an auto-refresh effect that returns no cleanup
EffectCleanupMissing(ts, ref) == ts

\* the cleanup the auto-refresh effect returns
EffectCleanup(ts, ref) == ClearAll(ts, CleanupCalls(ref))

\* the else branch of the auto-refresh effect
EffectElse(ts, ref) == ClearAll(ts, ElseCalls(ref))

\* fetchAlerts() of view instance i, called from src
fetchAlerts(i, src) ==
  /\ Issue([Request("/alerts/current", src, NoData) EXCEPT !.inst = i])
  /\ liveLoading' = IF i = inst THEN TRUE ELSE liveLoading

ManualRefresh ==
  /\ tab = "live"
  /\ ~liveLoading                                  \* disabled={loading}
  /\ fetchAlerts(inst, "manual")
  /\ UNCHANGED <<rendered, shellVars, variant, tab, inst, singleVars, batchVars, residents, lastRefresh,
                 autoRefresh, filter, intervalRef, timers, nextTimer, now,
                 presetMark, shownReq, cleared, delivered>>

\* one firing of a live interval timer
TimerTick(t) ==
  /\ t \in timers
  /\ fetchAlerts(t.inst, "timer")
  /\ UNCHANGED <<rendered, shellVars, variant, tab, inst, singleVars, batchVars, residents, lastRefresh,
                 autoRefresh, filter, intervalRef, timers, nextTimer, now,
                 presetMark, shownReq, cleared, delivered>>

\* click on the toggle: setAutoRefresh(v => !v), then the effect's cleanup
\* and the effect run for the new value
ToggleAutoRefresh ==
  /\ tab = "live"
  /\ autoRefresh' = ~autoRefresh
  /\ LET cleaned == EffectCleanup(timers, intervalRef)
     IN  IF autoRefresh'
         THEN /\ nextTimer <= MaxTimers
              /\ timers' = cleaned \cup {[id |-> nextTimer, inst |-> inst]}
              /\ intervalRef' = nextTimer
              /\ nextTimer' = nextTimer + 1
         ELSE /\ timers' = EffectElse(cleaned, intervalRef)
              /\ UNCHANGED <<intervalRef, nextTimer>>
  /\ cleared' = Logged(cleared, CleanupCalls(intervalRef)
                           \o (IF autoRefresh' THEN <<>> ELSE ElseCalls(intervalRef)))
  /\ UNCHANGED <<rendered, shellVars, variant, tab, inst, singleVars, batchVars, residents, liveLoading,
                 lastRefresh, filter, requests, nextReq, now, presetMark, shownReq, delivered>>

\* Array.prototype.sort with (a, b) => b.risk_score - a.risk_score: a stable
\* sort into non-increasing risk score
RECURSIVE InsertByRisk(_, _)
InsertByRisk(x, sorted) ==
  IF sorted = <<>> THEN <<x>>
  ELSE IF Head(sorted).risk_score >= x.risk_score
       THEN <<Head(sorted)>> \o InsertByRisk(x, Tail(sorted))
       ELSE <<x>> \o sorted

RECURSIVE SortByRisk(_)
SortByRisk(rs) ==
  IF rs = <<>> THEN <<>>
  ELSE InsertByRisk(rs[Len(rs)], SortByRisk(SubSeq(rs, 1, Len(rs) - 1)))

\* p => filter === "ALL" || p.alert_level === filter
Matches(p, f) == f = "ALL" \/ p.alert_level = f

\* const filtered = residents.filter(...).sort(...): sortBy is always "risk"
filtered(rs, f) == SortByRisk(SelectSeq(rs, LAMBDA p : Matches(p, f)))

\* a render that sorts the state array itself (sort without the filter copy)
ResidentsSortedInPlace(rs, f) == SortByRisk(rs)

\* the array held in the residents state after a render computed filtered:
\* filter() returns a new array and sort() reorders that copy
ResidentsAfterRender(rs, f) == rs

\* counts[l] = residents.filter(p => p.alert_level === l).length
counts(rs, l) == Len(SelectSeq(rs, LAMBDA p : p.alert_level = l))

\* a banner counted on the displayed list
urgentCountOfFiltered(rs, f) == counts(filtered(rs, f), "HIGH") + counts(filtered(rs, f), "URGENT")

\* const urgentCount = (counts.HIGH || 0) + (counts.URGENT || 0), on a render
\* with residents rs and filter f
urgentCount(rs, f) == counts(rs, "HIGH") + counts(rs, "URGENT")

\* {urgentCount > 0 && (<banner/>)}
BannerVisible(rs, f) == urgentCount(rs, f) > 0

SetFilter(f) ==
  /\ tab = "live"
  /\ filter' = f
  /\ residents' = ResidentsAfterRender(residents, f)
  /\ UNCHANGED <<rendered, shellVars, variant, tab, inst, singleVars, batchVars, liveLoading,
                 lastRefresh, autoRefresh, intervalRef, timers, nextTimer, requests,
                 nextReq, now, presetMark, shownReq, cleared, delivered>>

\* fetchAlerts() storing res.residents ?? [] whatever the call returned
AfterFetchAlwaysStores(s, rs, ld, lr, t) ==
  IF s.settled = "rejected" THEN <<rs, ld, lr, t>>
  ELSE IF s.value.isNull THEN <<rs, FALSE, lr, t>>
  ELSE IF ~Truthy(s.value.err) /\ s.value.data.hasList
       THEN <<s.value.data.list, FALSE, [time |-> t + 1], t + 1>>
  ELSE <<<<>>, FALSE, [time |-> t + 1], t + 1>>

\* <<residents, liveLoading, lastRefresh, now>> after the awaited call settled
\* at time t
\* (new Date() reads the clock; the clock is modelled by its readings)
AfterFetch(s, rs, ld, lr, t) ==
  IF s.settled = "rejected" THEN <<rs, ld, lr, t>>
  ELSE IF s.value.isNull THEN <<rs, FALSE, lr, t>>
  ELSE IF ~Truthy(s.value.err) /\ s.value.data.hasList
       THEN <<s.value.data.list, FALSE, [time |-> t + 1], t + 1>>
  ELSE <<rs, FALSE, lr, t>>

\* the list stored by the answer o to a fetch of the mounted Live View
StoresList(r, o) ==
  /\ r.inst = inst /\ Kind(api(o)) = "value" /\ api(o).value.data.hasList

FetchComplete(r, o) ==
  /\ r \in requests /\ r.path = "/alerts/current"
  /\ Settle(r, o)
  /\ shownReq' = IF StoresList(r, o) THEN r.id ELSE shownReq
  /\ IF Mounted(r)
     THEN /\ residents' = ResidentsAfterRender(
                            AfterFetch(api(o), residents, liveLoading, lastRefresh, now)[1],
                            filter)
          /\ liveLoading' = AfterFetch(api(o), residents, liveLoading, lastRefresh, now)[2]
          /\ lastRefresh' = AfterFetch(api(o), residents, liveLoading, lastRefresh, now)[3]
          /\ now' = AfterFetch(api(o), residents, liveLoading, lastRefresh, now)[4]
     ELSE UNCHANGED <<residents, liveLoading, lastRefresh, now>>
  /\ UNCHANGED <<rendered, shellVars, variant, tab, inst, singleVars, batchVars, autoRefresh, filter,
                 intervalRef, timers, nextTimer, nextReq, presetMark, cleared>>

(* ------------------------- rendering components ----------------------- *)
\* RiskOrb and the batch summary cards are functions of their props.  A
\* score is a number of 1/ScoreSteps (Num(k) is the score k/ScoreSteps), null
\* or undefined; lengths along the ring are in units of circumference/ScoreSteps.
UndefV == [undef |-> TRUE]       \* undefined held where a number may be

\* Math.floor in place of Math.round
RoundDown(num, den) == num \div den

\* Math.round(num / den) for num >= 0, den > 0: halves go up
RoundHalfUp(num, den) == (2 * num + den) \div (2 * den)

\* score != null
HasScore(score) == score # UndefV /\ score # NullV

\* the ring drawn from circumference * score, without the subtraction
DashOffsetDirect(score) ==
  IF HasScore(score) /\ score # Num(0) THEN score.n ELSE 0

\* dashOffset = circumference - circumference * (score || 0)
DashOffset(score) ==
  ScoreSteps
    - ((ScoreSteps * (IF HasScore(score) /\ score # Num(0) THEN score.n ELSE 0))
         \div ScoreSteps)

\* what RiskOrb({score, level}) renders
RiskOrb(v, score, level) ==
  LET r == risk(v, level)
      hasPct == HasScore(score)                  \* pct != null
      pct == IF hasPct THEN RoundHalfUp(score.n * 100, ScoreSteps) ELSE 0
  IN  [halo |-> /\ level # Absent /\ level # Null /\ level # "" /\ level # "NONE"
                /\ (v = "resident" => (HasScore(score) /\ 10 * score.n > ScoreSteps)),
       arc |-> HasScore(score),
       dashArray |-> ScoreSteps,
       dashOffset |-> DashOffset(score),
       text |-> IF hasPct THEN NatToDigits(pct) ELSE <<"dash">>,
       caption |-> hasPct,
       stroke |-> r]

\* const count = breakdown[lvl] || 0, breakdown = result?.alert_breakdown || {}
CardCount(bd, lvl) ==
  LET entry == IF bd = UndefV THEN UndefV ELSE bd[lvl]
  IN  IF entry = UndefV \/ entry = Num(0) THEN Num(0) ELSE entry

\* the percentage of a card: a number in the resident edition, the string
\* toFixed(0) returns (or the number 0) in the patient edition
CardPct(v, count, total) ==
  LET falsy == total = UndefV \/ total = Num(0)
  IN  IF v = "resident"
      THEN Num(RoundHalfUp(count.n * 100, IF falsy THEN 1 ELSE total.n))
      ELSE IF falsy THEN Num(0)
           ELSE Str(NatToDigits(RoundHalfUp(count.n * 100, total.n)))

\* the text React puts in the page for a number or a string
Text(x) == IF IsStr(x) THEN x.s ELSE NatToDigits(x.n)

\* the four summary cards of a batch result
Cards(v, bd, total) ==
  [lvl \in RiskLevels |->
     [count |-> Text(CardCount(bd, lvl)),
      pct |-> Text(CardPct(v, CardCount(bd, lvl), total)),
      style |-> risk(v, lvl)]]

\* props the components are rendered with
ScoreInputs == {UndefV, NullV} \cup {Num(k) : k \in 0..ScoreSteps}
OrbLevels == {Absent, "LOW", "NONE"}
CountInputs == {UndefV} \cup {Num(n) : n \in 0..MaxCount}
BreakdownInputs ==
  {UndefV} \cup
  {[lvl \in RiskLevels |->
      CASE lvl = "LOW" -> lo [] lvl = "MEDIUM" -> me
        [] lvl = "HIGH" -> Num(0) [] lvl = "URGENT" -> ur] :
     lo \in CountInputs, me \in {UndefV, Num(1)}, ur \in {UndefV, Num(0)}}
TotalInputs == {UndefV} \cup {Num(n) : n \in 0..MaxCount}

\* flagged lists a batch result is rendered with
RowInputs == {SummaryA, SummaryB, SummaryC, SummaryD, SummaryE, SummaryF}
RowLists ==
  UNION {[1..n -> RowInputs] : n \in 1..MaxRows}

\* rows in the order of the response
TableRowsUnsorted(l) == l

\* the rows of the flagged table:
\* [...result.high_risk_residents].sort((a, b) => b.risk_score - a.risk_score)
TableRows(l) == SortByRisk(l)

\* the list held in the result state after the table rendered: the spread
\* makes a new array and sort() reorders that copy
ListAfterRows(l) == l

NoRender == [kind |-> "none"]

RenderOrb(score, level) ==
  /\ rendered' = [kind |-> "orb", score |-> score, level |-> level,
                  out |-> RiskOrb(variant, score, level)]
  /\ UNCHANGED <<variant, viewVars, shellVars>>

RenderCards(bd, total) ==
  /\ rendered' = [kind |-> "cards", breakdown |-> bd, total |-> total,
                  out |-> Cards(variant, bd, total)]
  /\ UNCHANGED <<variant, viewVars, shellVars>>

\* the table is rendered when the list is not empty
RenderRows(l) ==
  /\ Len(l) > 0
  /\ rendered' = [kind |-> "rows", list |-> l, out |-> TableRows(l),
                  kept |-> ListAfterRows(l)]
  /\ UNCHANGED <<variant, viewVars, shellVars>>

(* ------------------------------ root shell ---------------------------- *)
Tabs == {"single", "batch", "live"}

\* a Live View without its mount effect
MountFetchNone(i) == {}

\* useEffect(() => { fetchAlerts(); }, [fetchAlerts]) of instance i: fetchAlerts
\* is memoised with no dependencies, so the effect runs when the view mounts
\* and on no later render; these are the calls it makes at mount
MountFetch(i) == {[Request("/alerts/current", "mount", NoData) EXCEPT !.inst = i]}

\* setTab(t) with t # tab: key={tab} unmounts the view and mounts a fresh one
SetTab(t) ==
  /\ t \in Tabs /\ t # tab
  /\ inst < MaxInst
  /\ tab' = t
  /\ inst' = inst + 1
  /\ form' = DEFAULT(variant) /\ result' = NullV /\ loading' = FALSE /\ error' = Null
  /\ file' = Null /\ folderPath' = <<>> /\ threshold' = 50
  /\ batchResult' = NullV /\ batchLoading' = FALSE /\ batchError' = Null
  /\ residents' = <<>> /\ lastRefresh' = NullV /\ autoRefresh' = FALSE
  /\ filter' = "ALL" /\ intervalRef' = 0
  /\ timers' = IF tab = "live" THEN EffectCleanup(timers, intervalRef) ELSE timers
  /\ cleared' = IF tab = "live" THEN Logged(cleared, CleanupCalls(intervalRef)) ELSE cleared
  /\ shownReq' = 0
  /\ IF t = "live"
     THEN /\ nextReq <= MaxReq
          /\ requests' = requests \cup MountFetch(inst + 1)
          /\ nextReq' = nextReq + 1
          /\ liveLoading' = TRUE
     ELSE /\ liveLoading' = FALSE
          /\ UNCHANGED <<requests, nextReq>>
  /\ UNCHANGED <<rendered, shellVars, variant, nextTimer, now, presetMark, delivered>>

(* --------------------------- settings and status ---------------------- *)
\* the answer to the shell's api("/status") call:
\* .then(r => { if (!r.__error) setModelStatus(r); })
AfterStatus(s, ms) ==
  IF s.settled = "rejected" THEN ms
  ELSE IF s.value.isNull THEN ms                       \* TypeError in the callback
  ELSE IF Truthy(s.value.err) THEN ms
  ELSE s.value

\* what the network does with the status call
StatusOutcomes == Outcomes([path |-> "/status"])

StatusComplete(o) ==
  /\ statusCall.pending
  /\ o \in StatusOutcomes
  /\ modelStatus' = AfterStatus(api(o), modelStatus)
  /\ statusCall' = NoCall
  /\ UNCHANGED <<rendered, variant, viewVars, storage, API_BASE, showSettings, url, connStatus,
                 testing, testCall, saved>>

\* the address the modal shows when it opens
InitialUrl(v, st, ab) ==
  IF Truthy(st) THEN st ELSE IF v = "patient" THEN DefaultUrl ELSE ab

OpenSettings ==
  /\ ~showSettings
  /\ showSettings' = TRUE
  /\ url' = InitialUrl(variant, storage, API_BASE)
  /\ connStatus' = NullV /\ testing' = FALSE /\ testCall' = NoCall
  /\ UNCHANGED <<rendered, variant, viewVars, storage, API_BASE, modelStatus, statusCall, saved>>

\* onClose from the close button, Cancel or a click on the backdrop: the
\* modal unmounts and its state is discarded; the continuation of a test
\* still awaited then sets state of an unmounted component, which does nothing
CloseSettings ==
  /\ showSettings
  /\ showSettings' = FALSE
  /\ url' = "" /\ connStatus' = NullV /\ testing' = FALSE /\ testCall' = NoCall
  /\ UNCHANGED <<rendered, variant, viewVars, storage, API_BASE, modelStatus, statusCall, saved>>

\* what the user types into the address field
UrlInputs == {"", "http://b"}

EditUrl(u) ==
  /\ showSettings
  /\ url' = u
  /\ UNCHANGED <<rendered, variant, viewVars, storage, API_BASE, showSettings, connStatus,
                 testing, testCall, modelStatus, statusCall, saved>>

\* test(): a direct fetch(url + "/api/status"), not a Remote Client call
test ==
  /\ showSettings /\ ~testing                          \* disabled={testing}
  /\ testing' = TRUE /\ connStatus' = NullV
  /\ testCall' = Call("/status", url \o "/api/status")
  /\ UNCHANGED <<rendered, variant, viewVars, storage, API_BASE, showSettings, url,
                 modelStatus, statusCall, saved>>

\* what the network does with the direct fetch
TestOutcomes ==
  {NetFail("Failed to fetch"), Http(200, FALSE, "Unexpected token", JsNull),
   Http(500, TRUE, "", Obj(Absent, NoData)), Http(200, TRUE, "", JsNull),
   Http(200, TRUE, "", Obj(Absent, [status |-> "ready"]))}

\* the status test() sets: only a rejected fetch, an unparseable body or a
\* null body reach the catch block (r.ok is not looked at)
TestResult(o) ==
  IF o.kind = "network" \/ ~o.parses \/ o.body.isNull
  THEN [ok |-> FALSE] ELSE [ok |-> TRUE]

\* a test() that also stores the address it reached
StorageAfterTestKeepsGood(st, u, res) == IF res.ok THEN u ELSE st

\* what test() leaves under api_base
StorageAfterTest(st, u, res) == st

TestComplete(o) ==
  /\ testCall.pending
  /\ o \in TestOutcomes
  /\ connStatus' = TestResult(o)
  /\ testing' = FALSE
  /\ testCall' = NoCall
  /\ storage' = StorageAfterTest(storage, url, TestResult(o))
  /\ saved' = IF storage' = storage THEN saved ELSE NoSave
  /\ UNCHANGED <<rendered, variant, viewVars, API_BASE, showSettings, url, modelStatus,
                 statusCall>>

\* window.location.reload(): the page, its timers and its pending calls are
\* gone, and the application starts again, st being the value under api_base
Reload(st) ==
  /\ tab' = "single" /\ inst' = 1
  /\ form' = DEFAULT(variant) /\ result' = NullV /\ loading' = FALSE /\ error' = Null
  /\ file' = Null /\ folderPath' = <<>> /\ threshold' = 50
  /\ batchResult' = NullV /\ batchLoading' = FALSE /\ batchError' = Null
  /\ residents' = <<>> /\ liveLoading' = FALSE /\ lastRefresh' = NullV
  /\ autoRefresh' = FALSE /\ filter' = "ALL" /\ intervalRef' = 0
  /\ timers' = {} /\ nextTimer' = 1
  /\ requests' = {} /\ nextReq' = 1
  /\ presetMark' = 1
  /\ shownReq' = 0
  /\ cleared' = [h \in 1..MaxTimers |-> 0]
  /\ delivered' = [inst |-> 0, kind |-> "nothing"]
  /\ API_BASE' = ApiBaseAtLoad(st)
  /\ showSettings' = FALSE
  /\ url' = "" /\ connStatus' = NullV /\ testing' = FALSE /\ testCall' = NoCall
  /\ modelStatus' = NullV
  /\ statusCall' = Call("/status", Target(st, ApiBaseAtLoad(st), "/status"))
  /\ UNCHANGED <<rendered, variant, now>>

\* a save() that closes the modal and reloads without writing the address
saveWithoutWrite ==
  /\ showSettings
  /\ storage' = storage
  /\ Reload(storage)
  /\ saved' = SavedAs(url)

\* save(): localStorage.setItem("api_base", url); onClose(); reload
save ==
  /\ showSettings
  /\ storage' = url
  /\ Reload(url)
  /\ saved' = SavedAs(url)

\* localStorage belongs to the origin, not to the page: another tab of the
\* application saves its own address, or the user clears the site's data
StoredElsewhere == {Absent, "http://c"}

ExternalStorage(v) ==
  /\ v # storage
  /\ storage' = v
  /\ saved' = NoSave
  /\ UNCHANGED <<rendered, variant, viewVars, API_BASE, showSettings, url, connStatus, testing,
                 testCall, modelStatus, statusCall>>

Next ==
  \/ Change
  \/ \E p \in PresetNames(variant) : Preset(p)
  \/ predict
  \/ \E r \in requests : \E o \in Outcomes(r) : PredictComplete(r, o)
  \/ \E f \in Files : SetFile(f)
  \/ \E path \in FolderPaths : SetFolderPath(path)
  \/ \E t \in Thresholds : SetThreshold(t)
  \/ RunClick
  \/ RunEnter
  \/ \E r \in requests : \E o \in Outcomes(r) : RunComplete(r, o)
  \/ ManualRefresh
  \/ \E t \in timers : TimerTick(t)
  \/ ToggleAutoRefresh
  \/ \E f \in FilterInputs : SetFilter(f)
  \/ \E r \in requests : \E o \in Outcomes(r) : FetchComplete(r, o)
  \/ \E t \in Tabs : SetTab(t)

Spec == Init /\ [][Next]_vars


\* The single and batch views on their own (the Live tab is never opened),
\* with every pending submit eventually answered: the assumption under which
\* "loading eventually becomes false" is claimed.
SubmitNext ==
  \/ Change
  \/ \E p \in PresetNames(variant) : Preset(p)
  \/ predict
  \/ \E r \in requests : \E o \in Outcomes(r) : PredictComplete(r, o)
  \/ \E f \in Files : SetFile(f)
  \/ \E path \in FolderPaths : SetFolderPath(path)
  \/ \E t \in Thresholds : SetThreshold(t)
  \/ RunClick
  \/ RunEnter
  \/ \E r \in requests : \E o \in Outcomes(r) : RunComplete(r, o)
  \/ \E t \in {"single", "batch"} : SetTab(t)

SubmitComplete ==
  \E r \in requests : \E o \in Outcomes(r) : PredictComplete(r, o) \/ RunComplete(r, o)

FairSubmitSpec == Init /\ [][SubmitNext]_vars /\ WF_vars(SubmitComplete)

\* The shell: the status call, the Settings modal, the stored address and
\* the calls of the single view.  Spec above is the three views under one
\* page load with the modal closed; save() is the only shell action that
\* touches a view, and it restarts the page.
ShellNext ==
  \/ \E o \in StatusOutcomes : StatusComplete(o)
  \/ OpenSettings
  \/ CloseSettings
  \/ \E u \in UrlInputs : EditUrl(u)
  \/ test
  \/ \E o \in TestOutcomes : TestComplete(o)
  \/ save
  \/ \E v \in StoredElsewhere : ExternalStorage(v)
  \/ predict
  \/ \E r \in requests : \E o \in Outcomes(r) : PredictComplete(r, o)

ShellSpec == Init /\ [][ShellNext]_vars

\* The rendering components on their own, given every prop of the input sets
RenderNext ==
  \/ \E score \in ScoreInputs : \E level \in OrbLevels : RenderOrb(score, level)
  \/ \E bd \in BreakdownInputs : \E total \in TotalInputs : RenderCards(bd, total)
  \/ \E l \in RowLists : RenderRows(l)

RenderSpec == Init /\ [][RenderNext]_vars

(* ============================== claims ================================ *)
LiveMounted == tab = "live"
SubmitPaths == {"/predict/single", "/predict/batch", "/predict/folder"}

\* C1: the number of live interval timers is 1 when the Live View is mounted
\* with autoRefresh on and 0 otherwise; the one timer is the handle held in
\* intervalRef and belongs to the mounted instance.
C1_OneTimerIffAutoRefresh ==
  IF LiveMounted /\ autoRefresh
  THEN timers = {[id |-> intervalRef, inst |-> inst]}
  ELSE timers = {}

\* the toggle went on, off, on, off: two timers were created, none is left
C1_Witness ==
  LiveMounted /\ ~autoRefresh /\ nextTimer = 3 /\ intervalRef = 2 /\ timers = {}

\* C2: a timer-driven fetchAlerts call is issued only while the Live View is
\* mounted with autoRefresh on, by the mounted instance: after a toggle-off
\* or an unmount no step issues one.
C2_NoTimerFetchAfterStop ==
  [][\A r \in requests' \ requests :
        r.src = "timer" => (LiveMounted /\ autoRefresh /\ r.inst = inst)]_vars

\* a timer tick issued a fetch that is still pending, and auto-refresh has
\* since been stopped (toggle-off or unmount)
C2_Witness ==
  \E r \in requests : r.src = "timer" /\ (~LiveMounted \/ ~autoRefresh)

\* C3: a fetchAlerts call that completes with an error changes nothing of the
\* Live View but the loading flag.
C3_ErrorKeepsData ==
  [][\A r \in requests : \A o \in Outcomes(r) :
        (FetchComplete(r, o) /\ Kind(api(o)) = "error")
          => /\ UNCHANGED <<residents, lastRefresh, autoRefresh, timers,
                            intervalRef, filter, now>>
             /\ (r.inst = inst => ~liveLoading')]_vars

\* prior data [B, A] is displayed, and the latest fetch of the mounted view
\* came back as an error
C3_Witness ==
  /\ LiveMounted /\ residents = <<SummaryB, SummaryA>>
  /\ delivered = [inst |-> inst, kind |-> "error"]
  /\ ~liveLoading /\ requests = {}

\* C4 (as claimed): in the single view result and error are never both
\* populated.
C4_ResultXorError == ~(result # NullV /\ error # Null)

\* C5: when the api call of a submit settles, the loading flag of the mounted
\* view that issued it is false afterwards; with every request eventually
\* answered, loading always becomes false again.
C5_LoadingCleared ==
  /\ [][\A r \in requests : \A o \in Outcomes(r) :
          /\ (PredictComplete(r, o) /\ r.inst = inst) => ~loading'
          /\ (RunComplete(r, o) /\ r.inst = inst) => ~batchLoading']_vars
  /\ (loading ~> ~loading)
  /\ (batchLoading ~> ~batchLoading)

\* a submit of each kind failed and left its view not loading, error shown
C5_Witness ==
  /\ delivered = [inst |-> inst, kind |-> "error"] /\ requests = {}
  /\ \/ tab = "single" /\ ~loading /\ error # Null
     \/ tab = "batch" /\ ~batchLoading /\ batchError # Null

\* C6 (as claimed): the mounted single or batch view has at most one
\* submission in flight.
C6_OneSubmissionInFlight ==
  Cardinality({r \in requests : r.path \in SubmitPaths /\ r.inst = inst}) <= 1

\* C7 (as claimed): a preset click replaces the form by the template and
\* leaves result and error empty.
C7_PresetClearsAll ==
  [][\A p \in PresetNames(variant) :
        Preset(p) => (form' = PRESETS(variant)[p] /\ result' = NullV /\ error' = Null)]_vars

\* C8 (as claimed): a result or error that becomes displayed belongs to a
\* submit issued after the last preset.
C8_NoStaleOutput ==
  [][((result' # result /\ result' # NullV) \/ (error' # error /\ error' # Null))
        => \E r \in requests \ requests' : r.id >= presetMark]_vars

\* the alert levels the mounted view hands to risk()
RenderedLevels ==
  RiskLevels
  \cup (IF result # NullV THEN {result.data.alert_level} ELSE {})
  \cup {residents[i].alert_level : i \in 1..Len(residents)}

\* C9 (as claimed): risk(level) is the level's own style, with non-empty label
\* and icon, for the four levels and exactly the NONE style for anything else.
C9_RiskTotal ==
  \A l \in RenderedLevels :
    IF l \in RiskLevels
    THEN /\ risk(variant, l) = T(variant)[l]
         /\ risk(variant, l).kind = "style"
         /\ risk(variant, l).label # "" /\ risk(variant, l).icon # ""
    ELSE risk(variant, l) = T(variant)["NONE"]

\* a request failed: by transport, by status or by an unparseable body
Failed(o) == o.kind = "network" \/ o.status < 200 \/ o.status > 299 \/ ~o.parses

\* C10: api() never rejects; every failure resolves to an object whose __error
\* is a non-empty message, every 2xx parseable response to the parsed body.
C10_ApiNeverRejects ==
  \A r \in requests : \A o \in Outcomes(r) :
    /\ api(o).settled = "resolved"
    /\ Failed(o) => (~api(o).value.isNull /\ Truthy(api(o).value.err))
    /\ ~Failed(o) => api(o).value = o.body

\* one call has come back as an error marker and another is pending, about
\* to be settled by any of its outcomes (the message-less network failure
\* included)
C10_Witness ==
  /\ \E r \in requests : NetFail("") \in Outcomes(r)
  /\ delivered.kind = "error"


\* a 2xx, parseable response whose body carries the service's own error
\* message in __error
BusinessError(o) ==
  /\ o.kind = "http" /\ Ok(o.status) /\ o.parses
  /\ ~o.body.isNull /\ Truthy(o.body.err)

NewCalls ==
  {<<r.path, r.url>> : r \in requests' \ requests}
  \cup (IF statusCall' # statusCall /\ statusCall'.pending
        THEN {<<statusCall'.path, statusCall'.url>>} ELSE {})

\* C12: every call resolves its base from storage when it starts: with a
\* non-empty value u under api_base at that moment the call goes to
\* u + "/api" + path, whatever the value was when the page loaded.
C12_BaseReadAtCall ==
  [][\A c \in NewCalls : Truthy(storage') => c[2] = storage' \o "/api" \o c[1]]_vars

\* the status call of this page load went to the default address and is
\* still pending; the stored value was then changed to http://c without a
\* reload, and the single view's call went to http://c
C12_Witness ==
  /\ statusCall = Call("/status", DefaultUrl \o "/api/status")
  /\ API_BASE = DefaultUrl /\ storage = "http://c"
  /\ \E r \in requests : r.url = "http://c/api/predict/single"


\* C13 (as claimed): a call made while nothing is stored under api_base goes
\* to the hardcoded default address, whatever was stored earlier.
C13_AbsentMeansDefault ==
  [][\A c \in NewCalls : storage' = Absent => c[2] = DefaultUrl \o "/api" \o c[1]]_vars


\* what save() does: the address field is written under api_base and the
\* page starts again (modal closed, no timers, no view calls, a new status
\* call pending)
SaveWritesAndReloads ==
  save => /\ storage' = url
          /\ ~showSettings' /\ tab' = "single" /\ timers' = {} /\ requests' = {}
          /\ modelStatus' = NullV /\ statusCall'.pending

\* C14 (as claimed): save() writes the field under api_base and reloads, and
\* from then on every call, the status call included, goes to the saved
\* string + "/api" + path, whatever the string.
C14_SavedIsTarget ==
  [][/\ SaveWritesAndReloads
     /\ \A c \in NewCalls :
          saved'.saved => c[2] = saved'.value \o "/api" \o c[1]]_vars

\* C14 (amended): as above for a non-empty saved string; after saving the
\* empty string every call goes to the default address.
C14_SavedNonEmptyIsTarget ==
  [][/\ SaveWritesAndReloads
     /\ \A c \in NewCalls :
          saved'.saved =>
            c[2] = (IF saved'.value # "" THEN saved'.value ELSE DefaultUrl)
                     \o "/api" \o c[1]]_vars

\* http://b was saved; the status call of the new page load and a call of the
\* single view both went to http://b
C14_Witness ==
  /\ saved = SavedAs("http://b") /\ storage = "http://b"
  /\ statusCall = Call("/status", "http://b/api/status")
  /\ \E r \in requests : r.url = "http://b/api/predict/single"


\* C15: opening the modal, editing the address, starting a test, the test's
\* answer (whatever it is) and closing the modal leave the value under
\* api_base as it was; a step of the application that changes it is save().
C15_OnlySaveWrites ==
  [][/\ (OpenSettings \/ CloseSettings \/ test \/ (\E u \in UrlInputs : EditUrl(u))
           \/ (\E o \in TestOutcomes : TestComplete(o)))
          => storage' = storage
     /\ (storage' # storage) => (save \/ \E v \in StoredElsewhere : ExternalStorage(v))]_vars

\* nothing is stored; the field was edited to http://b and the test of that
\* address succeeded
C15_Witness ==
  /\ showSettings /\ url = "http://b" /\ connStatus = [ok |-> TRUE] /\ ~testing
  /\ storage = Absent


\* C16: an edit of a numeric field with a raw value that does not parse
\* stores 0; every numeric field of the form always holds a number that is
\* not NaN, and so does the body predict() would send.
C16_NoNaNInForm ==
  /\ [](\A k \in NumericFields(variant) :
          /\ IsNum(form[k])
          /\ IsNum(Payload(variant, form)[k]))
  /\ [][\A k \in NumericFields(variant) : \A raw \in NumberRaws :
          (change(k, "number", raw) /\ parseFloat(raw) = NaNV) => form'[k] = Num(0)]_vars

\* "x" was typed into the age field, which now holds 0, and the form was
\* submitted
C16_Witness ==
  /\ tab = "single" /\ form.age = Num(0)
  /\ \E r \in requests : r.path = "/predict/single" /\ r.inst = inst /\ r.id >= presetMark


\* C17: from any state of the single view, a click on preset p leaves the
\* form equal to the template and result empty, and a second click on p
\* right after it leaves the same form and again an empty result.
C17_PresetIdempotent ==
  /\ [](\A p \in PresetNames(variant) :
          LET once == AfterPreset(variant, p, form, result, error)
              twice == AfterPreset(variant, p, once[1], once[2], once[3])
          IN  /\ once[1] = PRESETS(variant)[p] /\ once[2] = NullV
              /\ twice[1] = once[1] /\ twice[2] = NullV)
  /\ [][\A p \in PresetNames(variant) :
          Preset(p) => /\ form' = AfterPreset(variant, p, form, result, error)[1]
                       /\ result' = AfterPreset(variant, p, form, result, error)[2]]_vars

\* a prediction had been delivered to the mounted single view and the
\* "urgent" preset was clicked after it: the form is the template and the
\* result is gone
C17_Witness ==
  /\ tab = "single" /\ delivered = [inst |-> inst, kind |-> "value"]
  /\ presetMark = nextReq /\ nextReq > 1
  /\ form = PRESETS(variant)["urgent"] /\ result = NullV


\* a text that is the decimal numeral of a natural number
IsNumeral(cs) == cs # <<>> /\ DigitPrefix(cs) = Len(cs)

\* the breakdown {LOW:3, MEDIUM:1, HIGH:0, URGENT:0}
ExampleBreakdown ==
  [lvl \in RiskLevels |->
     CASE lvl = "LOW" -> Num(3) [] lvl = "MEDIUM" -> Num(1)
       [] lvl = "HIGH" -> Num(0) [] lvl = "URGENT" -> Num(0)]

\* C18: each summary card shows the level's entry of the breakdown (0 when the
\* entry or the breakdown is absent) and, for a positive total, an integer
\* nearest to 100 * count / total; count and percentage are numerals for
\* every count and total, zero and absent totals included; the example
\* breakdown with total 4 shows 75, 25, 0, 0.
C18_CardCountAndPercent ==
  rendered.kind = "cards" =>
    /\ \A lvl \in RiskLevels :
         LET entry == IF rendered.breakdown = UndefV THEN UndefV
                      ELSE rendered.breakdown[lvl]
             c == IF entry = UndefV THEN 0 ELSE entry.n
             card == rendered.out[lvl]
             n == DigitsToNat(card.pct, 0)
             t == rendered.total
         IN  /\ IsNumeral(card.count) /\ DigitsToNat(card.count, 0) = c
             /\ IsNumeral(card.pct)
             /\ (t # UndefV /\ t # Num(0)) =>
                  (IF 100 * c >= n * t.n THEN 2 * (100 * c - n * t.n) <= t.n
                                         ELSE 2 * (n * t.n - 100 * c) <= t.n)
    /\ (rendered.breakdown = ExampleBreakdown /\ rendered.total = Num(4)) =>
         /\ rendered.out["LOW"].pct = <<"7", "5">>
         /\ rendered.out["MEDIUM"].pct = <<"2", "5">>
         /\ rendered.out["HIGH"].pct = <<"0">>
         /\ rendered.out["URGENT"].pct = <<"0">>

\* the cards of a result with total 3 whose breakdown has LOW 2 and no entry
\* for MEDIUM and URGENT: 67 %, and 0 for the absent entries
C18_Witness ==
  /\ rendered.kind = "cards" /\ rendered.total = Num(3)
  /\ rendered.breakdown # UndefV
  /\ rendered.breakdown["LOW"] = Num(2) /\ rendered.breakdown["URGENT"] = UndefV
  /\ rendered.out["LOW"].pct = <<"6", "7">>
  /\ rendered.out["URGENT"].count = <<"0">>


\* the length of ring the gauge covers: circumference minus stroke-dashoffset
Sweep(out) == out.dashArray - out.dashOffset

\* C19: for a score in [0,1] the arc is drawn with a sweep that is the score's
\* share of the circumference: 0 at score 0, the whole circumference at score
\* 1, and never smaller for a larger score; for a null or undefined score no
\* arc is drawn and the text is the placeholder, not a numeral.
C19_GaugeSweep ==
  /\ [](rendered.kind = "orb" =>
          IF HasScore(rendered.score)
          THEN /\ rendered.out.arc
               /\ Sweep(rendered.out) * ScoreSteps = rendered.out.dashArray * rendered.score.n
               /\ rendered.score = Num(0) => Sweep(rendered.out) = 0
               /\ rendered.score = Num(ScoreSteps)
                    => Sweep(rendered.out) = rendered.out.dashArray
               /\ IsNumeral(rendered.out.text)
          ELSE /\ ~rendered.out.arc
               /\ ~IsNumeral(rendered.out.text) /\ rendered.out.text = <<"dash">>
               /\ ~rendered.out.caption)
  /\ [][(/\ rendered.kind = "orb" /\ rendered'.kind = "orb"
         /\ HasScore(rendered.score) /\ HasScore(rendered'.score)
         /\ rendered.score.n <= rendered'.score.n)
          => Sweep(rendered.out) <= Sweep(rendered'.out)]_vars

\* the gauge of score 1: the ring is covered and the text is 100
C19_Witness ==
  /\ rendered.kind = "orb" /\ rendered.score = Num(ScoreSteps)
  /\ rendered.out.arc /\ rendered.out.dashOffset = 0
  /\ rendered.out.text = <<"1", "0", "0">>


\* the mount fetches a step issues
NewMountFetches == {r \in requests' \ requests : r.src = "mount"}

\* C20: the step that mounts the Live View issues exactly one mount fetch, a
\* call of /alerts/current by the new instance; no step that leaves the
\* mounted instance in place (a re-render after a change of loading, data,
\* filter or the auto-refresh toggle) and no other mount issues one.
C20_OneMountFetch ==
  [][IF inst' # inst /\ tab' = "live"
     THEN /\ Cardinality(NewMountFetches) = 1
          /\ \A r \in NewMountFetches : r.inst = inst' /\ r.path = "/alerts/current"
     ELSE NewMountFetches = {}]_vars

\* the Live View was mounted, its fetch answered with data, the filter
\* changed and auto-refresh switched on: one request was issued in all
C20_Witness ==
  /\ LiveMounted /\ nextReq = 2 /\ requests = {}
  /\ residents = <<SummaryB, SummaryA>> /\ ~liveLoading
  /\ filter = "LOW" /\ autoRefresh


\* C21: a change of filter leaves the fetched collection as it is, a fetch
\* that delivers a list leaves exactly that list in residents (the render
\* that follows does not reorder it), and the displayed list holds each item
\* of residents that matches the filter as often as residents does and
\* nothing else (every item for ALL).
C21_FilterKeepsCollection ==
  /\ [][/\ \A f \in FilterInputs : SetFilter(f) => residents' = residents
        /\ \A r \in requests : \A o \in Outcomes(r) :
             (FetchComplete(r, o) /\ StoresList(r, o))
                => residents' = api(o).value.data.list]_vars
  /\ [](LET shown == filtered(residents, filter)
        IN  /\ \A i \in 1..Len(shown) : Matches(shown[i], filter)
            /\ \A i \in 1..Len(residents) :
                 Occurrences(shown, residents[i]) =
                   (IF Matches(residents[i], filter)
                    THEN Occurrences(residents, residents[i]) ELSE 0)
            /\ \A i \in 1..Len(shown) : Occurrences(residents, shown[i]) > 0
            /\ filter = "ALL" => Len(shown) = Len(residents))

\* the list [B, A] was delivered and the filter then set to URGENT: the
\* collection is still [B, A] and the displayed list is [A]
C21_Witness ==
  /\ LiveMounted /\ filter = "URGENT" /\ requests = {}
  /\ residents = <<SummaryB, SummaryA>>
  /\ filtered(residents, filter) = <<SummaryA>>

NewBatchRequests ==
  {r \in requests' \ requests : r.path \in {"/predict/batch", "/predict/folder"}}

\* C23: a step issues a batch request only with a file selected (patient
\* edition) or a folder path holding a character that is not a space
\* (resident edition), whether it comes from the button or the Enter key; the
\* request carries that file or the trimmed path, and the slider's value.
C23_BatchNeedsInput ==
  [][\A r \in NewBatchRequests :
        IF variant = "patient"
        THEN /\ file # Null /\ r.payload.file = file
             /\ DigitsToNat(r.payload.threshold.s, 0) = threshold
        ELSE /\ \E i \in 1..Len(folderPath) : folderPath[i] # " "
             /\ r.payload.folder_path # <<>>
             /\ r.payload.folder_path[1] # " "
             /\ r.payload.threshold = Num(threshold)]_vars

\* a run started with the Enter key for the path "/d " and the slider at 80
\* is pending; the path field has since been emptied to a single space
C23_Witness ==
  /\ tab = "batch" /\ folderPath = <<" ">> /\ threshold = 80
  /\ \E r \in requests :
       /\ r.src = "enter" /\ r.inst = inst
       /\ r.payload = [folder_path |-> <<"/", "d">>, threshold |-> Num(80)]


\* C24: a change of tab mounts a fresh view: on a return to the single tab the
\* form is the default form and result, error and loading are empty/false
\* (and likewise the other views start from their initial values); a response
\* to a request of an instance that is no longer mounted changes no state of
\* the mounted view.
C24_TabSwitchIsolates ==
  [][/\ (tab' # tab /\ tab' = "single")
          => /\ form' = DEFAULT(variant)
             /\ result' = NullV /\ error' = Null /\ loading' = FALSE
     /\ (tab' # tab /\ tab' = "batch")
          => /\ file' = Null /\ folderPath' = <<>> /\ threshold' = 50
             /\ batchResult' = NullV /\ batchError' = Null /\ batchLoading' = FALSE
     /\ (tab' # tab /\ tab' = "live")
          => /\ residents' = <<>> /\ lastRefresh' = NullV
             /\ autoRefresh' = FALSE /\ filter' = "ALL"
     /\ \A r \in requests \ requests' :
          r.inst # inst => UNCHANGED <<tab, inst, singleVars, batchVars, liveVars>>]_vars

\* back on the single tab after two tab changes, the answer (a value) to the
\* request the first single view issued has just arrived and the view still
\* shows the default form and no output
C24_Witness ==
  /\ tab = "single" /\ inst = 3
  /\ delivered = [inst |-> 1, kind |-> "value"]
  /\ form = DEFAULT(variant) /\ result = NullV /\ error = Null /\ loading = FALSE


\* C25: in the batch view result and error are never both populated.
C25_BatchResultXorError == ~(batchResult # NullV /\ batchError # Null)


\* C26: the flagged table lists its rows in non-increasing risk score, the
\* rows are a permutation of the list of the response, and the list held in
\* the result is left in the order of the response.
C26_TableSorted ==
  rendered.kind = "rows" =>
    /\ \A i \in 1..(Len(rendered.out) - 1) :
         rendered.out[i].risk_score >= rendered.out[i + 1].risk_score
    /\ Len(rendered.out) = Len(rendered.list)
    /\ \A x \in RowInputs :
         Occurrences(rendered.out, x) = Occurrences(rendered.list, x)
    /\ rendered.kept = rendered.list

\* a response listing r2, r1, r2 is shown as r1, r2, r2
C26_Witness ==
  /\ rendered.kind = "rows"
  /\ rendered.list = <<SummaryB, SummaryA, SummaryB>>
  /\ rendered.out = <<SummaryA, SummaryB, SummaryB>>
  /\ rendered.kept = <<SummaryB, SummaryA, SummaryB>>


\* C27: while a Live View stays mounted, the collection it holds never goes
\* back from the answer of a fetch to the answer of a fetch issued earlier.
C27_NewestFetchShown ==
  [][(tab' = tab /\ inst' = inst) => shownReq' >= shownReq]_vars


\* C28: in the Live View loading is true exactly while a fetch of the mounted
\* view is pending (the Refresh button is disabled={loading}, so it is then
\* disabled exactly while a fetch is pending).
C28_LoadingIffPending ==
  LiveMounted =>
    (liveLoading <=> \E r \in requests : r.path = "/alerts/current" /\ r.inst = inst)


\* C29: clearInterval is called once per stop event: a step that ends
\* auto-refresh of the mounted Live View (toggle-off, or unmount with
\* auto-refresh on) calls it once with the current handle, and no step calls
\* it with a handle it was already called with.
C29_CancelOncePerStop ==
  [][/\ (tab = "live" /\ autoRefresh /\ ~autoRefresh')
          => cleared' = [cleared EXCEPT ![intervalRef] = 1]
     /\ \A h \in DOMAIN cleared :
          cleared'[h] > cleared[h] => (cleared[h] = 0 /\ cleared'[h] = 1)]_vars


\* C30: the connectivity test reports success only for an answer with a 2xx
\* status and a parseable body, reports failure for an unreachable server, a
\* status outside 2xx or an unparseable body, and leaves testing false.
C30_TestReportsOnly2xx ==
  [][\A o \in TestOutcomes :
       TestComplete(o)
         => /\ connStatus'.ok => (o.kind = "http" /\ Ok(o.status) /\ o.parses)
            /\ testing' = FALSE]_vars


====
